---- MODULE Spec2Model ----
(***************************************************************************)
(* Model of the "send-test-repo-action" GitHub Action                      *)
(* (src/send-test-repo-action/src/index.ts, and its compiled build         *)
(* src/unnamed/part_000).                                                  *)
(*                                                                         *)
(* run() is one async function.  Its body is cut at its four awaits        *)
(* (glob.create, globber.glob, uploadArtifact, createWorkflowDispatch);    *)
(* each action below is the code that runs between two awaits, the catch   *)
(* block included when that code (or the awaited call) throws.             *)
(*                                                                         *)
(* JavaScript values are tagged records, so that undefined, null, the      *)
(* empty string and 0 stay distinct and `??`, `!x`, `.toString()` and      *)
(* template literals can be modelled by what they do.                      *)
(* Log calls that only print (core.info, core.debug, start/endGroup) are   *)
(* not part of the state; core.warning, core.error and core.notice are     *)
(* kept in `log`.                                                          *)
(***************************************************************************)
EXTENDS Integers, Sequences, FiniteSets, TLC

VARIABLES
    inputs,          \* INPUT_* environment of the step: name -> Undef | Str(s)
    envToken,        \* process.env.GITHUB_TOKEN: Undef | Str(s)
    pkgFile,         \* ./package.json: "missing" | "malformed" | an object
    variant,         \* which build runs: "ts" (index.ts) or "dist" (part_000)
    pc,              \* position of run()
    token,           \* const token
    folderPath,      \* const folderPath
    artifactName,    \* const artifactName
    pageName,        \* let pageName
    files,           \* const files: Undef, or Files(<<path, ...>>) after the scan
    uploadResponse,  \* const uploadResponse: Undef, or Response(id) once returned
    workflowResponse,\* const workflowResponse: Undef, or HttpResponse(status)
    caught,          \* the value the catch block received, or NotThrown
    setFailedCalls,  \* messages of the core.setFailed calls, in order
    outputs,         \* core.setOutput calls, in order
    writes,          \* fs.writeFileSync calls, in order
    uploadCalls,     \* artifactClient.uploadArtifact calls, in order
    octokitCalls,    \* github.getOctokit calls (the token handed over)
    dispatchCalls,   \* createWorkflowDispatch requests sent, in order
    log              \* core.warning / core.error / core.notice, in order

vars == <<inputs, envToken, pkgFile, variant, pc, token, folderPath,
          artifactName, pageName, files, uploadResponse, workflowResponse,
          caught, setFailedCalls, outputs, writes, uploadCalls, octokitCalls,
          dispatchCalls, log>>

locals == <<token, folderPath, artifactName, pageName, files, uploadResponse,
            workflowResponse>>
environment == <<inputs, envToken, pkgFile, variant>>

(***************************************************************************)
(* Bounds and program constants                                            *)
(***************************************************************************)
MaxFiles == 2          \* the glob scan yields 0..MaxFiles files
MaxId == 10            \* uploadArtifact returns an id in 0..MaxId, or none

RetentionDays == 30
TargetWorkflow == 175007698
TargetRepo == "unit-tests"
TargetOwner == "VSC-NeuroPilot"
TargetRef == "main"
StatusNoContent == 204

ContextOwner == "octo"         \* github.context.repo.owner
ContextRepo == "my-repo"       \* github.context.repo.repo

(***************************************************************************)
(* JavaScript values                                                       *)
(***************************************************************************)
Undef == [t |-> "undefined"]
Null == [t |-> "null"]
Str(s) == [t |-> "string", s |-> s]
Num(n) == [t |-> "number", n |-> n]

\* Values that can be thrown: an Error (with or without a status property),
\* a plain object (with or without status), a string, null.
Thrown(isErr, hasSt, st, msg) ==
    [t |-> "object", isError |-> isErr, hasStatus |-> hasSt,
     status |-> st, message |-> msg]
NewError(msg) == Thrown(TRUE, FALSE, Undef, Str(msg))
NotThrown == [t |-> "none"]

Files(seq) == [t |-> "array", items |-> seq]
Response(id) == [t |-> "object", id |-> id]
HttpResponse(status) == [t |-> "object", status |-> status]

Digit(d) ==
    CASE d = 0 -> "0" [] d = 1 -> "1" [] d = 2 -> "2" [] d = 3 -> "3"
      [] d = 4 -> "4" [] d = 5 -> "5" [] d = 6 -> "6" [] d = 7 -> "7"
      [] d = 8 -> "8" [] d = 9 -> "9"

RECURSIVE NumToStr(_)
\* Number.prototype.toString() of a non-negative integer
NumToStr(n) == IF n < 10 THEN Digit(n) ELSE NumToStr(n \div 10) \o Digit(n % 10)

\* String(v), also what a template literal `${v}` yields
StringOf(v) ==
    CASE v.t = "undefined" -> "undefined"
      [] v.t = "null" -> "null"
      [] v.t = "string" -> v.s
      [] v.t = "number" -> NumToStr(v.n)
      [] v.t = "object" -> "[object Object]"

\* !!v
Truthy(v) ==
    CASE v.t = "undefined" -> FALSE
      [] v.t = "null" -> FALSE
      [] v.t = "string" -> v.s # ""
      [] v.t = "number" -> v.n # 0
      [] v.t = "object" -> TRUE

\* a ?? b : b only when a is null or undefined
Coalesce(a, b) == IF a.t \in {"undefined", "null"} THEN b ELSE a

\* obj?.field
OptChain(obj, field) == IF obj.t \in {"undefined", "null"} THEN Undef ELSE obj[field]

\* path.join(dir, name) and path.dirname(dir), for paths without "." or
\* ".." segments and without a trailing separator
PathJoin(dir, name) == IF dir = "" THEN name ELSE dir \o "/" \o name
PathDirname(dir) == IF dir = "out/reports" THEN "out" ELSE "."

(***************************************************************************)
(* Environment                                                             *)
(***************************************************************************)
InputNames == {"github-token", "dir", "artifact-name", "page-name"}

GivenValue(name) ==
    CASE name = "github-token" -> {"ghp_input"}
      [] name = "dir" -> {"reports", "out/reports"}
      [] name = "artifact-name" -> {"coverage"}
      [] name = "page-name" -> {"My Page"}

\* an input is not supplied, supplied empty, or supplied with a value
\* (values are already trimmed, as core.getInput returns them)
InputChoices(name) == {Undef, Str("")} \cup {Str(s) : s \in GivenValue(name)}
InputEnv ==
    {f \in [InputNames -> UNION {InputChoices(n) : n \in InputNames}] :
        \A n \in InputNames : f[n] \in InputChoices(n)}

PkgObject(dn, nm) == [t |-> "object", displayName |-> dn, name |-> nm]
PkgFiles ==
    {[t |-> "missing"], [t |-> "malformed"]}
    \cup {PkgObject(dn, nm) : dn \in {Undef, Str("Display Name")},
                              nm \in {Undef, Str("pkg-name")}}

Variants == {"ts", "dist"}

ThrownValues ==
    { NewError("boom"),
      Thrown(TRUE, TRUE, Num(404), Str("Not Found")),
      Thrown(FALSE, TRUE, Num(500), Undef),
      Thrown(FALSE, FALSE, Undef, Undef),
      Str("plain string"),
      Null }
\* what fs.writeFileSync throws when the marker cannot be written
FsErrors == {NewError("EACCES: permission denied, open 'info.json'")}

Statuses == {StatusNoContent, 200, 404}
UploadIds == {Undef} \cup {Num(n) : n \in 0..MaxId}

(***************************************************************************)
(* The helpers of index.ts                                                 *)
(***************************************************************************)
\* core.getInput(name): the trimmed value of INPUT_<name>, '' when not set
GetInput(name) == IF inputs[name] = Undef THEN Str("") ELSE inputs[name]

\* (mutation: the required input is read without { required: true })
RequiredMissing_NotRequired(name) == FALSE

\* core.getInput(name, {required: true}) throws when the value is empty
RequiredMissing(name) == ~Truthy(GetInput(name))
RequiredError(name) == NewError("Input required and not supplied: " \o name)

\* getPackageJson(): the parsed package.json, null when reading or parsing throws
getPackageJson == IF pkgFile.t = "object" THEN pkgFile ELSE Null

ResolveToken == Coalesce(GetInput("github-token"), envToken)
ResolveArtifactName == Coalesce(GetInput("artifact-name"), Str(ContextRepo))
ResolvePageNameChain ==
    Coalesce(Coalesce(GetInput("page-name"),
                      OptChain(getPackageJson, "displayName")),
             OptChain(getPackageJson, "name"))
ResolvePageName ==
    IF ~Truthy(ResolvePageNameChain) THEN ResolveArtifactName
    ELSE ResolvePageNameChain

\* the catch block's choice of message
IsHttpError(erm) == erm.t = "object" /\ erm.hasStatus
HttpMessage(erm) ==
    "HTTP Error " \o StringOf(erm.status) \o ": " \o StringOf(erm.message)
PlainMessage(erm) ==
    IF erm.t = "object" /\ erm.isError THEN erm.message.s ELSE StringOf(erm)
\* (mutation: setFailed is given the text core.error is given)
FailureMessage_AsLogged(erm) ==
    IF IsHttpError(erm) THEN HttpMessage(erm)
    ELSE "Unexpected error: " \o PlainMessage(erm)

FailureMessage(erm) ==
    IF IsHttpError(erm) THEN HttpMessage(erm) ELSE PlainMessage(erm)
ErrorLog(erm) ==
    IF IsHttpError(erm) THEN HttpMessage(erm)
    ELSE "Unexpected error: " \o PlainMessage(erm)

\* catch (erm) { ... }: lines 138-160; failed and logged are the setFailed
\* calls and log lines made so far, this step's included
Catch(erm, failed, logged) ==
    /\ caught' = erm
    /\ log' = Append(logged, <<"error", ErrorLog(erm)>>)
    /\ setFailedCalls' = Append(failed, FailureMessage(erm))
    /\ pc' = "done"

(***************************************************************************)
(* run()                                                                   *)
(***************************************************************************)
Init ==
    /\ inputs \in InputEnv
    /\ envToken \in {Undef, Str("ghs_ambient")}
    /\ pkgFile \in PkgFiles
    /\ variant \in Variants
    /\ pc = "start"
    /\ token = Undef
    /\ folderPath = Undef
    /\ artifactName = Undef
    /\ pageName = Undef
    /\ files = Undef
    /\ uploadResponse = Undef
    /\ workflowResponse = Undef
    /\ caught = NotThrown
    /\ setFailedCalls = <<>>
    /\ outputs = <<>>
    /\ writes = <<>>
    /\ uploadCalls = <<>>
    /\ octokitCalls = <<>>
    /\ dispatchCalls = <<>>
    /\ log = <<>>

\* lines 20-54: the inputs are read and resolved, glob.create is called
Start ==
    /\ pc = "start"
    /\ token' = ResolveToken
    /\ IF RequiredMissing("dir")
       THEN /\ Catch(RequiredError("dir"), setFailedCalls, log)
            /\ UNCHANGED <<folderPath, artifactName, pageName>>
       ELSE /\ folderPath' = GetInput("dir")
            /\ artifactName' = ResolveArtifactName
            /\ pageName' = ResolvePageName
            /\ log' = IF ~Truthy(ResolvePageNameChain)
                      THEN Append(log, <<"warning", "No name provided! Falling back to artifact name!">>)
                      ELSE log
            /\ pc' = "glob.create"
            /\ UNCHANGED <<caught, setFailedCalls>>
    /\ UNCHANGED <<environment, files, uploadResponse, workflowResponse,
                   outputs, writes, uploadCalls, octokitCalls, dispatchCalls>>

\* line 54-57: glob.create settles; globber.glob() is called
GlobCreated ==
    /\ pc = "glob.create"
    /\ \/ /\ pc' = "glob"
          /\ UNCHANGED <<caught, setFailedCalls, log>>
       \/ \E erm \in ThrownValues : Catch(erm, setFailedCalls, log)
    /\ UNCHANGED <<environment, locals, outputs, writes, uploadCalls,
                   octokitCalls, dispatchCalls>>

\* the files a scan of `${folderPath}/**/*` yields, when it yields n of them
GlobFiles(n) == [i \in 1..n |-> folderPath.s \o "/f" \o NumToStr(i)]

MarkerWrite ==
    [path |-> PathJoin(folderPath.s, "info.json"),
     data |-> "{name:" \o StringOf(pageName) \o "}"]

\* (mutation: the upload is given the platform's default retention and the
\* scan without its first match)
UploadCall_Mutated(fs) ==
    [name |-> artifactName, files |-> Tail(fs),
     rootDirectory |-> PathDirname(folderPath.s),
     retentionDays |-> 90]

UploadCall(fs) ==
    [name |-> artifactName, files |-> fs,
     rootDirectory |-> PathDirname(folderPath.s),
     retentionDays |-> RetentionDays]

\* (mutation: the empty scan is not checked)
NoFilesFound_Unchecked(fs) == FALSE

\* line 62: files.length === 0
NoFilesFound(fs) == Len(fs) = 0

\* lines 57-77: globber.glob() settles; the empty scan throws, the marker
\* is written and uploadArtifact is called
Globbed ==
    /\ pc = "glob"
    /\ \/ \E erm \in ThrownValues :
            /\ Catch(erm, setFailedCalls, log)
            /\ UNCHANGED <<files, writes, uploadCalls>>
       \/ \E n \in 0..MaxFiles :
            /\ files' = Files(GlobFiles(n))
            /\ IF NoFilesFound(GlobFiles(n))
               THEN /\ Catch(NewError("No files found in " \o StringOf(folderPath)),
                             setFailedCalls, log)
                    /\ UNCHANGED <<writes, uploadCalls>>
               ELSE /\ writes' = Append(writes, MarkerWrite)
                    /\ \/ /\ uploadCalls' = Append(uploadCalls, UploadCall(GlobFiles(n)))
                          /\ pc' = "upload"
                          /\ UNCHANGED <<caught, setFailedCalls, log>>
                       \/ \E erm \in FsErrors :
                            /\ Catch(erm, setFailedCalls, log)
                            /\ UNCHANGED uploadCalls
    /\ UNCHANGED <<environment, token, folderPath, artifactName, pageName,
                   uploadResponse, workflowResponse, outputs, octokitCalls,
                   dispatchCalls>>

\* lines 91-92 (and line 73 of the compiled build)
SetOutputs(id) ==
    <<  <<"artifact-id", NumToStr(id.n)>>,
        <<"artifact-name", StringOf(artifactName)>> >>
    \o (IF variant = "dist"
        THEN << <<"repository", ContextOwner \o "/" \o ContextRepo>> >>
        ELSE <<>>)

\* (mutation: the payload carries the artifact name where the id belongs)
DispatchRequest_WrongId(id) ==
    [owner |-> TargetOwner, repo |-> TargetRepo, workflow_id |-> TargetWorkflow,
     ref |-> TargetRef,
     inputs |-> [artifactId |-> StringOf(artifactName),
                 repo |-> ContextOwner \o "/" \o ContextRepo,
                 folderName |-> artifactName]]

\* lines 107-124
DispatchRequest(id) ==
    [owner |-> TargetOwner, repo |-> TargetRepo, workflow_id |-> TargetWorkflow,
     ref |-> TargetRef,
     inputs |-> [artifactId |-> NumToStr(id.n),
                 repo |-> ContextOwner \o "/" \o ContextRepo,
                 folderName |-> artifactName]]

\* (mutation: the check of the id is inverted)
AfterUploadFailed_Inverted(id) ==
    IF Truthy(id) THEN Append(setFailedCalls, "No artifact uploaded!")
    ELSE setFailedCalls

\* line 79-81: the run is marked failed when the id is falsy, and goes on
AfterUploadFailed(id) ==
    IF ~Truthy(id) THEN Append(setFailedCalls, "No artifact uploaded!")
    ELSE setFailedCalls

UploadNotice(id) ==
    <<"notice", "Artifact \"" \o StringOf(artifactName) \o "\" uploaded with ID: " \o StringOf(id)>>

\* github.getOctokit(token) throws when it is given no token
OctokitRejects(tok) == ~Truthy(tok)

\* lines 77-124: uploadArtifact settles; the outputs are set, the client is
\* created and the workflow dispatch is sent
Uploaded ==
    /\ pc = "upload"
    /\ \/ \E erm \in ThrownValues :
            /\ Catch(erm, setFailedCalls, log)
            /\ UNCHANGED <<uploadResponse, outputs, octokitCalls, dispatchCalls>>
       \/ \E id \in UploadIds :
            /\ uploadResponse' = Response(id)
            /\ IF id = Undef
               THEN \* uploadResponse.id!.toString() on undefined
                    /\ Catch(NewError("Cannot read properties of undefined (reading 'toString')"),
                             AfterUploadFailed(id), Append(log, UploadNotice(id)))
                    /\ UNCHANGED <<outputs, octokitCalls, dispatchCalls>>
               ELSE /\ outputs' = outputs \o SetOutputs(id)
                    /\ octokitCalls' = Append(octokitCalls, token)
                    /\ IF OctokitRejects(token)
                       THEN /\ Catch(NewError("Parameter token or opts.auth is required"),
                                     AfterUploadFailed(id), Append(log, UploadNotice(id)))
                            /\ UNCHANGED dispatchCalls
                       ELSE /\ dispatchCalls' = Append(dispatchCalls, DispatchRequest(id))
                            /\ setFailedCalls' = AfterUploadFailed(id)
                            /\ log' = Append(log, UploadNotice(id))
                            /\ pc' = "dispatch"
                            /\ UNCHANGED caught
    /\ UNCHANGED <<environment, token, folderPath, artifactName, pageName,
                   files, workflowResponse, writes, uploadCalls>>

\* lines 126-136: createWorkflowDispatch settles
Dispatched ==
    /\ pc = "dispatch"
    /\ \/ \E erm \in ThrownValues :
            /\ Catch(erm, setFailedCalls, log)
            /\ UNCHANGED workflowResponse
       \/ \E status \in Statuses :
            /\ workflowResponse' = HttpResponse(status)
            /\ IF status = StatusNoContent
               THEN /\ log' = Append(log, <<"notice", "Successfully triggered workflow "
                                \o NumToStr(TargetWorkflow) \o " in " \o TargetOwner \o "/" \o TargetRepo>>)
                    /\ UNCHANGED setFailedCalls
               ELSE /\ log' = Append(log, <<"warning", "Unexpected response status: " \o NumToStr(status)>>)
                    /\ setFailedCalls' = Append(setFailedCalls,
                            "Something went wrong while dispatching the workflow! " \o NumToStr(status))
            /\ pc' = "done"
            /\ UNCHANGED caught
    /\ UNCHANGED <<environment, token, folderPath, artifactName, pageName,
                   files, uploadResponse, outputs, writes, uploadCalls,
                   octokitCalls, dispatchCalls>>

Next == Start \/ GlobCreated \/ Globbed \/ Uploaded \/ Dispatched

Spec == Init /\ [][Next]_vars

(***************************************************************************)
(* Properties                                                              *)
(***************************************************************************)
Last(seq) == seq[Len(seq)]
Given(name) == inputs[name] # Undef /\ inputs[name].s # ""
Scanned == files # Undef
UploadReturned == uploadResponse # Undef
DispatchReturned == workflowResponse # Undef
OutputNamed(name) == {outputs[i][2] : i \in {j \in DOMAIN outputs : outputs[j][1] = name}}

\* A run fails when 'dir' is missing, the scan is empty, the upload returns
\* no or a falsy id, something is thrown, or the dispatch status is not 204.
FailingRun ==
    \/ ~Given("dir")
    \/ Scanned /\ files.items = <<>>
    \/ UploadReturned /\ ~Truthy(uploadResponse.id)
    \/ caught # NotThrown
    \/ DispatchReturned /\ workflowResponse.status # 204

\* C1: in every failing run core.setFailed has been called exactly once when
\* run() finishes.
C1_ExactlyOneSetFailed ==
    pc = "done" /\ FailingRun => Len(setFailedCalls) = 1

\* C2: when the 'dir' input is missing, run() goes from its start straight
\* to its end marked failed, and no marker write, artifact upload, API
\* client or workflow dispatch is ever attempted.
C2_MissingDirNoSideEffect ==
    ~Given("dir") =>
        /\ pc \in {"start", "done"}
        /\ pc = "done" => setFailedCalls # <<>>
        /\ writes = <<>>
        /\ uploadCalls = <<>>
        /\ octokitCalls = <<>>
        /\ dispatchCalls = <<>>

C2_Witness ==
    /\ ~Given("dir")
    /\ pc = "done"
    /\ setFailedCalls = <<"Input required and not supplied: dir">>

\* C3: when the scan yields no file, run() ends marked failed with
\* 'No files found in <dir>', having written no marker, uploaded nothing
\* and dispatched nothing.
C3_EmptyScanFails ==
    Scanned /\ files.items = <<>> =>
        /\ pc = "done"
        /\ setFailedCalls = <<"No files found in " \o inputs["dir"].s>>
        /\ writes = <<>>
        /\ uploadCalls = <<>>
        /\ dispatchCalls = <<>>

C3_Witness ==
    /\ Scanned /\ files.items = <<>>
    /\ setFailedCalls = <<"No files found in out/reports">>

UploadArgsRight ==
    /\ uploadCalls[1].files = files.items
    /\ uploadCalls[1].name = artifactName
    /\ uploadCalls[1].retentionDays = 30

\* C4 as stated: a run whose scan yields N >= 1 files has, when it
\* finishes, called uploadArtifact exactly once, with all N files, the
\* artifact name of the run and retentionDays = 30.
C4_UploadExactlyOnce ==
    pc = "done" /\ Scanned /\ Len(files.items) >= 1 =>
        Len(uploadCalls) = 1 /\ UploadArgsRight

\* C4 amended: uploadArtifact is never called more than once and never
\* before a scan that yielded N >= 1 files; a call is given all N files,
\* the artifact name of the run and retentionDays = 30; and a run whose scan
\* yielded N >= 1 files has made the call once the marker write has not
\* thrown.
C4_UploadOnceUnlessWriteThrows ==
    /\ Len(uploadCalls) <= 1
    /\ uploadCalls # <<>> => Scanned /\ Len(files.items) >= 1 /\ UploadArgsRight
    /\ Scanned /\ Len(files.items) >= 1 /\ caught \notin FsErrors
            => Len(uploadCalls) = 1

C4_Witness ==
    /\ pc = "done"
    /\ Scanned /\ Len(files.items) = 2
    /\ Len(uploadCalls) = 1
    /\ uploadCalls[1].files = <<"reports/f1", "reports/f2">>

\* The page name the four-level precedence selects.
ExpectedPageName ==
    IF Given("page-name") THEN inputs["page-name"].s
    ELSE IF pkgFile.t = "object" /\ pkgFile.displayName # Undef
         THEN pkgFile.displayName.s
    ELSE IF pkgFile.t = "object" /\ pkgFile.name # Undef THEN pkgFile.name.s
    ELSE StringOf(artifactName)

\* C5: the name written into the marker is the highest-precedence one that
\* is present: 'page-name' input, package.json displayName, package.json
\* name, artifact name.
C5_PageNamePrecedence ==
    writes # <<>> => writes[1].data = "{name:" \o ExpectedPageName \o "}"

\* The artifact name the action documents.
ExpectedArtifactName ==
    IF Given("artifact-name") THEN inputs["artifact-name"].s ELSE ContextRepo

\* C6: the artifact name of the upload, of the 'artifact-name' output and
\* of the dispatch payload is the 'artifact-name' input when given, and the
\* current repository's name when omitted.
C6_ArtifactNameDefault ==
    /\ uploadCalls # <<>> => StringOf(uploadCalls[1].name) = ExpectedArtifactName
    /\ OutputNamed("artifact-name") \subseteq {ExpectedArtifactName}
    /\ dispatchCalls # <<>> =>
            StringOf(dispatchCalls[1].inputs.folderName) = ExpectedArtifactName

\* The credential the action documents.
ExpectedToken ==
    IF Given("github-token") THEN inputs["github-token"] ELSE envToken

\* C7: the token handed to the GitHub API client is the 'github-token' input
\* when given, and process.env.GITHUB_TOKEN when omitted (stated for the
\* runs that have one of the two).
C7_TokenDefault ==
    octokitCalls # <<>> /\ (Given("github-token") \/ envToken # Undef)
        => octokitCalls[1] = ExpectedToken

\* C8: a run in which the upload returned a non-empty id and the dispatch
\* returned 204 finishes never marked failed, with the outputs 'artifact-id'
\* (the id as a string) and 'artifact-name' (the run's artifact name) set.
C8_SuccessSetsOutputs ==
    /\ pc = "done"
    /\ UploadReturned /\ Truthy(uploadResponse.id)
    /\ DispatchReturned /\ workflowResponse.status = 204
    => /\ setFailedCalls = <<>>
       /\ OutputNamed("artifact-id") = {StringOf(uploadResponse.id)}
       /\ OutputNamed("artifact-name") = {StringOf(artifactName)}

C8_Witness ==
    /\ pc = "done"
    /\ UploadReturned /\ uploadResponse.id = Num(7)
    /\ DispatchReturned /\ workflowResponse.status = 204
    /\ setFailedCalls = <<>>
    /\ OutputNamed("artifact-id") = {"7"}

\* The message the error classification prescribes for a thrown value.
ExpectedFailure(v) ==
    IF v.t = "object" /\ v.hasStatus
    THEN "HTTP Error " \o StringOf(v.status) \o ": " \o StringOf(v.message)
    ELSE IF v.t = "object" /\ v.isError THEN v.message.s
    ELSE StringOf(v)

\* C9: a thrown value ends run() with a setFailed whose message is
\* 'HTTP Error <status>: <message>' when the value is a non-null object
\* with a 'status' field, and else the Error's message, or the value's
\* string form when it is no Error.
C9_FailureMessage ==
    caught # NotThrown =>
        /\ pc = "done"
        /\ setFailedCalls # <<>>
        /\ Last(setFailedCalls) = ExpectedFailure(caught)

C9_Witness ==
    /\ caught = Thrown(TRUE, TRUE, Num(404), Str("Not Found"))
    /\ DispatchReturned = FALSE
    /\ dispatchCalls # <<>>
    /\ setFailedCalls = <<"HTTP Error 404: Not Found">>

\* C10: a workflow dispatch is sent at most once, only after the one upload
\* of the run has returned an identifier, and its 'artifact-id' input is
\* the string form of that identifier.
C10_DispatchAfterUpload ==
    /\ Len(dispatchCalls) <= 1
    /\ dispatchCalls # <<>> =>
        /\ Len(uploadCalls) = 1
        /\ UploadReturned
        /\ uploadResponse.id # Undef
        /\ dispatchCalls[1].inputs.artifactId = StringOf(uploadResponse.id)

C10_Witness ==
    /\ Len(dispatchCalls) = 1
    /\ UploadReturned /\ uploadResponse.id = Num(10)
    /\ dispatchCalls[1].inputs.artifactId = "10"

====
